---- MODULE Spec2Model ----
(***************************************************************************)
(* AjmMp3Decoder (src/core/libraries/ajm/ajm_mp3.cpp): one decoder session *)
(* driven by a single caller thread.  The libavcodec parser and decoder    *)
(* are external: each call into them is a nondeterministic choice over the *)
(* results its interface allows.                                           *)
(***************************************************************************)
EXTENDS Integers, FiniteSets, Sequences, TLC

\* ---------------------------------------------------------------- bounds
MaxIn == 2          \* largest in_size a caller passes
MaxOut == 2         \* largest out_size a caller passes
MaxSamples == 2     \* largest nb_samples of a decoded frame
MaxFrames == 2      \* the engine delivers frames while num_frames is below this
MaxBuf == 1         \* the splitter's buffered byte count saturates here
MaxCtx == 2         \* addresses the allocator hands out for codec contexts
MaxLeak == 1        \* the count of live AVFrames saturates here
MaxRecord == 1      \* calls carry a job-output record while its counter is at most this
MaxSwr == 2         \* addresses the allocator hands out for SwrContexts
MaxConv == 3        \* ConvertAudioFrame calls each thread makes

NULL == 0

\* ------------------------------------------------------- 32-bit unsigned
\* A u32 is held as the signed integer with the same 32 bits: v for
\* v < 2^31 and v - 2^32 above.  Subtraction then wraps exactly as u32 does.
S32Min == -2147483647 - 1

U32Sub(a, b) ==
    LET d == a - b
    IN  IF d < S32Min THEN ((d + 2147483647) + 2147483647) + 2 ELSE d

\* a <= b as unsigned values
U32Le(a, b) ==
    IF (a >= 0) = (b >= 0) THEN a <= b ELSE a >= 0

VARIABLES
    pc,               \* position of the caller thread
    c,                \* AVCodecContext* c (NULL or an address)
    ctxLive,          \* codec contexts allocated and not freed
    badFree,          \* a release was applied to a context that was not live
    parser,           \* AVCodecParserContext* parser
    parserLive,       \* parser contexts allocated and not closed
    parserBuf,        \* bytes the splitter holds without having emitted a unit
    decoded_samples,
    num_frames,
    in_size,          \* Decode's in_size parameter (u32)
    out_size,         \* Decode's out_size parameter (u32 bit pattern)
    in0, out0,        \* the sizes the caller supplied to the current/last Decode
    ds0, nf0,         \* the counters when the current/last Decode was entered
    written,          \* bytes memcpy'd behind out_buf in the current/last Decode
    consumed,         \* bytes the splitter reported consumed in the current/last Decode
    hasRec,           \* output->p_mframe is non-null in the current/last Decode
    mframe,           \* output->p_mframe->num_frames
    frame,            \* the AVFrame the drain loop holds: channels, samples, format
    pktLive,          \* AVPackets allocated and not freed
    framesLive,       \* AVFrames allocated and not freed (saturating)
    swr_context,      \* the file-scope SwrContext* (NULL or 1)
    swrLive,          \* SwrContexts allocated and not freed
    fault,            \* why the process died, "none" while it runs
    resetRun,         \* consecutive Reset calls since the last Decode: 0, 1, 2 or more
    buf,              \* ParseMp3Header: the four header bytes buf[0..3]
    hdr,              \* ParseMp3Header: the AjmDecMp3ParseFrame it fills
    ppc,              \* ParseMp3Header: "ready", "parsed" or "crashed"
    tpc,              \* threads: where each thread is in ConvertAudioFrame
    tconv,            \* threads: ConvertAudioFrame calls each thread has completed
    swrOwner,         \* threads: the thread that allocated each SwrContext, 0 when not live
    foreign           \* threads: a thread lost its SwrContext to another or used another's

vars == << pc, c, ctxLive, badFree, parser, parserLive, parserBuf,
           decoded_samples, num_frames, in_size, out_size, in0, out0, ds0, nf0,
           written, consumed, hasRec, mframe, frame, pktLive, framesLive,
           swr_context, swrLive, fault, resetRun,
           buf, hdr, ppc, tpc, tconv, swrOwner, foreign >>

sessionVars == << c, ctxLive, badFree, parser, parserLive, parserBuf,
                  decoded_samples, num_frames >>
callVars == << in_size, out_size, in0, out0, ds0, nf0, written, consumed,
               hasRec, mframe, frame >>
tempVars == << pktLive, framesLive, swr_context, swrLive >>
\* the state of the header parser and of the threads inside ConvertAudioFrame,
\* which the operations of the single session above leave alone
headerVars == << buf, hdr, ppc >>
threadVars == << tpc, tconv, swrOwner, foreign >>
otherVars == << headerVars, threadVars >>

CtxIds == 1..MaxCtx

\* The address an allocation returns.  Addresses are interchangeable, so the
\* allocator is taken to hand out the lowest one not in use.
Alloc(live) == CHOOSE a \in CtxIds \ live : \A b \in CtxIds \ live : a <= b

NoFrame == [ch |-> 0, n |-> 0, fmt |-> "none"]
\* what avcodec_receive_frame can hand back: AV_SAMPLE_FMT_S16 or another format
\* of a mono or stereo block
Frames == [ch : {1, 2}, n : 1..MaxSamples, fmt : {"S16", "other"}]

\* the AjmDecMp3ParseFrame before ParseMp3Header has filled it
NoHeader == [sample_rate |-> 0, bitrate |-> 0, num_channels |-> 0,
             frame_size |-> 0, samples_per_channel |-> 0, encoder_delay |-> 0]

\* A u8.
Bytes == 0..255

\* const u8* buf with the four bytes given: buf[0] .. buf[3].
Header(b0, b1, b2, b3) == [i \in 0..3 |-> << b0, b1, b2, b3 >>[i + 1]]

\* the threads that call ConvertAudioFrame, one per session
Threads == {1, 2}
\* addresses the allocator hands out for SwrContexts
SwrIds == 1..MaxSwr

\* ------------------------------------------------------ libav allocator
\* avcodec_free_context(&p): frees *p and stores NULL in p; no-op on NULL.
avcodec_free_context(p, live, bad) ==
    IF p = NULL
    THEN [ptr |-> NULL, live |-> live, bad |-> bad]
    ELSE [ptr |-> NULL, live |-> live \ {p}, bad |-> bad \/ p \notin live]

\* av_free(p): frees the block at p; no-op on NULL.
av_free(p, live, bad) ==
    IF p = NULL
    THEN [live |-> live, bad |-> bad]
    ELSE [live |-> live \ {p}, bad |-> bad \/ p \notin live]

\* if (c) { avcodec_free_context(&c); av_free(c); }
ReleaseCodecContext_Leak(p, live, bad) ==
    [ptr |-> p, live |-> live, bad |-> bad]

ReleaseCodecContext_Twice(p, live, bad) ==
    IF p = NULL
    THEN [ptr |-> p, live |-> live, bad |-> bad]
    ELSE LET f == av_free(p, live, bad)
             g == av_free(p, f.live, f.bad)
         IN  [ptr |-> p, live |-> g.live, bad |-> g.bad]

ReleaseCodecContext(p, live, bad) ==
    IF p = NULL
    THEN [ptr |-> p, live |-> live, bad |-> bad]
    ELSE LET f == avcodec_free_context(p, live, bad)
             g == av_free(f.ptr, f.live, f.bad)
         IN  [ptr |-> f.ptr, live |-> g.live, bad |-> g.bad]

\* ------------------------------------------------------------------ Init
\* The state the constructor leaves: parser = av_parser_init(), then Reset()
\* with c == nullptr, which allocates the first codec context.
SessionInit ==
    /\ pc = "idle"
    /\ c = Alloc({})
    /\ ctxLive = {c}
    /\ badFree = FALSE
    /\ parser = 1
    /\ parserLive = {1}
    /\ parserBuf = 0
    /\ decoded_samples = 0
    /\ num_frames = 0
    /\ in_size = 0 /\ out_size = 0 /\ in0 = 0 /\ out0 = 0
    /\ ds0 = 0 /\ nf0 = 0 /\ written = 0 /\ consumed = 0
    /\ hasRec = FALSE /\ mframe = 0
    /\ frame = NoFrame
    /\ pktLive = 0 /\ framesLive = 0
    /\ swr_context = NULL /\ swrLive = 0
    /\ fault = "none"
    /\ resetRun = 1

\* ParseMp3Header has not been called.
HeaderIdle ==
    /\ buf = Header(0, 0, 0, 0)
    /\ hdr = NoHeader
    /\ ppc = "ready"

\* No thread is inside ConvertAudioFrame and no SwrContext exists.
ThreadsIdle ==
    /\ tpc = [t \in Threads |-> "out"]
    /\ tconv = [t \in Threads |-> 0]
    /\ swrOwner = [a \in SwrIds |-> 0]
    /\ foreign = FALSE

Init == SessionInit /\ HeaderIdle /\ ThreadsIdle

\* ----------------------------------------------------------------- Reset
\* A Reset that also closes the parser and opens a new one.
Reset_ReinitParser ==
    /\ pc = "idle"
    /\ LET r == ReleaseCodecContext(c, ctxLive, badFree)
       IN  /\ badFree' = r.bad
           /\ CtxIds \ r.live # {}
           /\ c' = Alloc(r.live)
           /\ ctxLive' = r.live \cup {c'}
    /\ parserBuf' = 0
    /\ decoded_samples' = 0
    /\ num_frames' = 0
    /\ resetRun' = IF resetRun < 2 THEN resetRun + 1 ELSE 2
    /\ UNCHANGED << pc, parser, parserLive, callVars, tempVars, fault >>
    /\ UNCHANGED otherVars

\* Reset(): release the old codec context, allocate and open a new one,
\* zero the counters.  The parser is not mentioned.
Reset ==
    /\ pc = "idle"
    /\ LET r == ReleaseCodecContext(c, ctxLive, badFree)
       IN  /\ badFree' = r.bad
           /\ CtxIds \ r.live # {}
           /\ c' = Alloc(r.live)
           /\ ctxLive' = r.live \cup {c'}
    /\ decoded_samples' = 0
    /\ num_frames' = 0
    /\ resetRun' = IF resetRun < 2 THEN resetRun + 1 ELSE 2
    /\ UNCHANGED << pc, parser, parserLive, parserBuf, callVars, tempVars, fault >>
    /\ UNCHANGED otherVars

\* Reset() when avcodec_alloc_context3 or avcodec_open2 fails: ASSERT_MSG aborts.
ResetFail ==
    /\ pc = "idle"
    /\ LET r == ReleaseCodecContext(c, ctxLive, badFree)
       IN  /\ badFree' = r.bad
           /\ \/ c' = NULL /\ ctxLive' = r.live
              \/ /\ CtxIds \ r.live # {}
                 /\ c' = Alloc(r.live)
                 /\ ctxLive' = r.live \cup {c'}
    /\ pc' = "aborted"
    /\ fault' = "assert"
    /\ UNCHANGED << parser, parserLive, parserBuf, decoded_samples, num_frames,
                    callVars, tempVars, resetRun >>
    /\ UNCHANGED otherVars

\* ------------------------------------------------------------ destructor
\* ~AjmMp3Decoder(): avcodec_free_context(&c); av_free(c);
Destroy ==
    /\ pc = "idle"
    /\ LET f == avcodec_free_context(c, ctxLive, badFree)
           g == av_free(f.ptr, f.live, f.bad)
       IN  /\ c' = f.ptr
           /\ ctxLive' = g.live
           /\ badFree' = g.bad
    /\ pc' = "destroyed"
    /\ UNCHANGED << parser, parserLive, parserBuf, decoded_samples, num_frames,
                    callVars, tempVars, fault, resetRun >>
    /\ UNCHANGED otherVars

\* ---------------------------------------------------------------- Decode
\* while (in_size > 0 && out_size > 0), both u32
LoopCond_Or(i, o) == i # 0 \/ o # 0

LoopCond(i, o) == i # 0 /\ o # 0

\* frame->ch_layout.nb_channels * frame->nb_samples * sizeof(u16)
FrameBytes_NoSizeof(f) == f.ch * f.n

FrameBytes(f) == f.ch * f.n * 2

\* decoded_samples += frame->nb_samples
CountSamples_Assign(ds, n) == n

CountSamples(ds, n) == ds + n

\* Decode(buf, in_size, out_buf, out_size, output) is entered: av_packet_alloc().
DecodeEnter ==
    /\ pc = "idle"
    /\ \E i \in 0..MaxIn, o \in 0..MaxOut,
          rec \in {FALSE} \cup (IF mframe <= MaxRecord THEN {TRUE} ELSE {}) :
        /\ in_size' = i /\ in0' = i
        /\ out_size' = o /\ out0' = o
        /\ hasRec' = rec
    /\ ds0' = decoded_samples
    /\ nf0' = num_frames
    /\ written' = 0
    /\ consumed' = 0
    /\ pktLive' = pktLive + 1
    /\ resetRun' = 0
    /\ pc' = "loop"
    /\ UNCHANGED << sessionVars, mframe, frame, framesLive, swr_context, swrLive, fault >>
    /\ UNCHANGED otherVars

\* The test of the outer while loop.
LoopTest ==
    /\ pc = "loop"
    /\ pc' = IF LoopCond(in_size, out_size) THEN "parse" ELSE "exit"
    /\ UNCHANGED << sessionVars, callVars, tempVars, fault, resetRun >>
    /\ UNCHANGED otherVars

\* A Parse that advances the cursor only when a unit came out.
Parse_AdvanceOnUnit ==
    /\ pc = "parse"
    /\ \E ret \in 0..in_size, unit \in BOOLEAN :
        /\ unit => parserBuf + ret > 0
        /\ in_size' = IF unit THEN in_size - ret ELSE in_size
        /\ consumed' = consumed + ret
        /\ parserBuf' = IF unit THEN 0
                        ELSE IF parserBuf + ret < MaxBuf THEN parserBuf + ret ELSE MaxBuf
        /\ pc' = IF unit THEN "drain" ELSE "loop"
    /\ UNCHANGED << c, ctxLive, badFree, parser, parserLive, decoded_samples,
                    num_frames, out_size, in0, out0, ds0, nf0, written, hasRec,
                    mframe, frame, tempVars, fault, resetRun >>
    /\ UNCHANGED otherVars

\* av_parser_parse2 consumes ret bytes of the window, 0 <= ret <= in_size,
\* and may emit a unit (pkt->size != 0) out of the bytes it then holds;
\* buf += ret; in_size -= ret; a unit is sent to the decoder with
\* avcodec_send_packet.  Consuming nothing and emitting nothing is allowed.
Parse ==
    /\ pc = "parse"
    /\ \E ret \in 0..in_size, unit \in BOOLEAN :
        /\ unit => parserBuf + ret > 0
        /\ in_size' = in_size - ret
        /\ consumed' = consumed + ret
        /\ parserBuf' = IF unit THEN 0
                        ELSE IF parserBuf + ret < MaxBuf THEN parserBuf + ret ELSE MaxBuf
        /\ pc' = IF unit THEN "drain" ELSE "loop"
    /\ UNCHANGED << c, ctxLive, badFree, parser, parserLive, decoded_samples,
                    num_frames, out_size, in0, out0, ds0, nf0, written, hasRec,
                    mframe, frame, tempVars, fault, resetRun >>
    /\ UNCHANGED otherVars

\* av_parser_parse2 returns a negative value, or avcodec_send_packet does:
\* ASSERT_MSG(ret >= 0, ...) aborts.
ParseAssertFail ==
    /\ pc = "parse"
    /\ pc' = "aborted"
    /\ fault' = "assert"
    /\ UNCHANGED << sessionVars, callVars, tempVars, resetRun >>
    /\ UNCHANGED otherVars

\* frame = av_frame_alloc(); avcodec_receive_frame gives EAGAIN or EOF: break.
\* The frame just allocated is not freed.
ReceiveNone ==
    /\ pc = "drain"
    /\ framesLive' = IF framesLive < MaxLeak THEN framesLive + 1 ELSE MaxLeak
    /\ pc' = "loop"
    /\ UNCHANGED << sessionVars, callVars, pktLive, swr_context, swrLive, fault,
                    resetRun >>
    /\ UNCHANGED otherVars

\* avcodec_receive_frame gives another negative value: UNREACHABLE_MSG.
ReceiveError ==
    /\ pc = "drain"
    /\ framesLive' = IF framesLive < MaxLeak THEN framesLive + 1 ELSE MaxLeak
    /\ pc' = "aborted"
    /\ fault' = "unreachable"
    /\ UNCHANGED << sessionVars, callVars, pktLive, swr_context, swrLive, resetRun >>
    /\ UNCHANGED otherVars

\* avcodec_receive_frame fills the frame.
ReceiveFrame ==
    /\ pc = "drain"
    /\ num_frames < MaxFrames
    /\ \E f \in Frames : frame' = f
    /\ pc' = "deliver"
    /\ UNCHANGED << sessionVars, in_size, out_size, in0, out0, ds0, nf0, written,
                    consumed, hasRec, mframe, tempVars, fault, resetRun >>
    /\ UNCHANGED otherVars

\* ConvertAudioFrame(frame) when swr_convert_frame succeeds: the global
\* swr_context is freed if set and allocated anew, the input frame is freed
\* and its S16 clone returned.
ConvertAudioFrame ==
    /\ swr_context' = 1
    /\ swrLive' = (IF swr_context # NULL THEN swrLive - 1 ELSE swrLive) + 1

\* Lines 107-117: convert unless already S16, memcpy size bytes to out_buf
\* (file.write sends the same bytes to a dump stream), advance out_buf,
\* out_size -= size, count the frame, free it.  No test of size against
\* out_size precedes the copy.
Deliver ==
    /\ pc = "deliver"
    /\ IF frame.fmt # "S16"
       THEN ConvertAudioFrame
       ELSE UNCHANGED << swr_context, swrLive >>
    /\ LET size == FrameBytes(frame)
       IN  /\ written' = written + size
           /\ out_size' = U32Sub(out_size, size)
    /\ decoded_samples' = CountSamples(decoded_samples, frame.n)
    /\ num_frames' = num_frames + 1
    /\ frame' = NoFrame
    /\ pc' = "drain"
    /\ UNCHANGED << c, ctxLive, badFree, parser, parserLive, parserBuf, in_size,
                    in0, out0, ds0, nf0, consumed, hasRec, mframe, pktLive,
                    framesLive, fault, resetRun >>
    /\ UNCHANGED otherVars

\* ConvertAudioFrame(frame) when swr_convert_frame fails: it logs, returns
\* nullptr without freeing frame or its clone, and Decode reads
\* frame->ch_layout through the null pointer.  No ASSERT or UNREACHABLE is
\* on this path; the read of the unmapped page at address 0 kills the process.
DeliverConvertFail ==
    /\ pc = "deliver"
    /\ frame.fmt # "S16"
    /\ ConvertAudioFrame
    /\ framesLive' = MaxLeak
    /\ pc' = "aborted"
    /\ fault' = "nullderef"
    /\ UNCHANGED << sessionVars, callVars, pktLive, resetRun >>
    /\ UNCHANGED otherVars

\* The loop is left: av_packet_free(&pkt); the record, when there is one,
\* gets num_frames added; return (in_size, out_size).
Exit ==
    /\ pc = "exit"
    /\ pktLive' = pktLive - 1
    /\ mframe' = IF hasRec THEN mframe + num_frames ELSE mframe
    /\ pc' = "idle"
    /\ UNCHANGED << sessionVars, in_size, out_size, in0, out0, ds0, nf0, written,
                    consumed, hasRec, frame, framesLive, swr_context, swrLive,
                    fault, resetRun >>
    /\ UNCHANGED otherVars

DecodeStep ==
    \/ LoopTest
    \/ Parse
    \/ ParseAssertFail
    \/ ReceiveNone
    \/ ReceiveError
    \/ ReceiveFrame
    \/ Deliver
    \/ DeliverConvertFail
    \/ Exit

Next ==
    \/ Reset
    \/ ResetFail
    \/ Destroy
    \/ DecodeEnter
    \/ DecodeStep

Spec == Init /\ [][Next]_vars

\* The caller's thread keeps running once it is inside Decode.
FairSpec == Spec /\ WF_vars(DecodeStep)

\* ------------------------------------- ConvertAudioFrame, statement by statement
\* ConvertAudioFrame works on the file-scope swr_context, which every session
\* of the process shares.  Each thread runs the function's statements in
\* order; the steps of different threads interleave.
singleSessionVars ==
    << pc, c, ctxLive, badFree, parser, parserLive, parserBuf, decoded_samples,
       num_frames, in_size, out_size, in0, out0, ds0, nf0, written, consumed,
       hasRec, mframe, frame, pktLive, framesLive, fault, resetRun >>

SwrLiveSet == {a \in SwrIds : swrOwner[a] # 0}

\* swr_free(&swr_context): the context at p is released
SwrRelease_Forget(owner, p) == owner

SwrRelease(owner, p) == [owner EXCEPT ![p] = 0]

\* Lines 31-33: the function is entered and the frame cloned.
CafEnter(t) ==
    /\ tpc[t] = "out"
    /\ tconv[t] < MaxConv
    /\ tpc' = [tpc EXCEPT ![t] = "test"]
    /\ UNCHANGED << tconv, swrOwner, foreign, swr_context, swrLive >>
    /\ UNCHANGED << singleSessionVars, headerVars >>

\* Line 35: if (swr_context)
CafTest(t) ==
    /\ tpc[t] = "test"
    /\ tpc' = [tpc EXCEPT ![t] = IF swr_context # NULL THEN "free" ELSE "alloc"]
    /\ UNCHANGED << tconv, swrOwner, foreign, swr_context, swrLive >>
    /\ UNCHANGED << singleSessionVars, headerVars >>

\* Lines 36-37: swr_free(&swr_context); swr_context = nullptr;  swr_free
\* reads the pointer again and does nothing when it is already NULL.  The
\* context may be one another thread has set up and is about to convert with.
CafFree(t) ==
    /\ tpc[t] = "free"
    /\ IF swr_context # NULL
       THEN /\ swrOwner' = SwrRelease(swrOwner, swr_context)
            /\ swrLive' = Cardinality({a \in SwrIds : swrOwner'[a] # 0})
            /\ foreign' = (foreign \/ \E u \in Threads \ {t} : tpc[u] = "convert")
       ELSE UNCHANGED << swrOwner, swrLive, foreign >>
    /\ swr_context' = NULL
    /\ tpc' = [tpc EXCEPT ![t] = "alloc"]
    /\ UNCHANGED tconv
    /\ UNCHANGED << singleSessionVars, headerVars >>

\* Lines 39-43: swr_alloc_set_opts2(&swr_context, ...) allocates a context
\* when the pointer is NULL and otherwise sets the options on the one it
\* finds; its result is not tested, so a failed allocation leaves NULL.
CafAlloc(t) ==
    /\ tpc[t] = "alloc"
    /\ IF swr_context = NULL /\ SwrIds \ SwrLiveSet # {}
       THEN LET a == CHOOSE x \in SwrIds \ SwrLiveSet :
                       \A y \in SwrIds \ SwrLiveSet : x <= y
            IN  /\ swr_context' = a
                /\ swrOwner' = [swrOwner EXCEPT ![a] = t]
                /\ swrLive' = Cardinality(SwrLiveSet) + 1
       ELSE UNCHANGED << swr_context, swrOwner, swrLive >>
    /\ tpc' = [tpc EXCEPT ![t] = "convert"]
    /\ UNCHANGED << tconv, foreign >>
    /\ UNCHANGED << singleSessionVars, headerVars >>

\* Lines 44-51: swr_init(swr_context); swr_convert_frame(swr_context, ...).
\* The pointer is read again: it may be NULL or another thread's context.
CafConvert(t) ==
    /\ tpc[t] = "convert"
    /\ foreign' = (foreign \/ swr_context = NULL \/ swrOwner[swr_context] # t)
    /\ tconv' = [tconv EXCEPT ![t] = tconv[t] + 1]
    /\ tpc' = [tpc EXCEPT ![t] = "out"]
    /\ UNCHANGED << swrOwner, swr_context, swrLive >>
    /\ UNCHANGED << singleSessionVars, headerVars >>

\* Two sessions decode on separate threads without coordination.
ConcNext ==
    \/ \E t \in Threads : CafEnter(t)
    \/ \E t \in Threads : CafTest(t)
    \/ \E t \in Threads : CafFree(t)
    \/ \E t \in Threads : CafAlloc(t)
    \/ \E t \in Threads : CafConvert(t)

ConcSpec == Init /\ [][ConcNext]_vars

\* The calls are made one after another: a call is entered only when no
\* thread is inside ConvertAudioFrame.
Alone(t) == \A u \in Threads \ {t} : tpc[u] = "out"

SerialNext ==
    \/ \E t \in Threads : Alone(t) /\ CafEnter(t)
    \/ \E t \in Threads : Alone(t) /\ CafTest(t)
    \/ \E t \in Threads : Alone(t) /\ CafFree(t)
    \/ \E t \in Threads : Alone(t) /\ CafAlloc(t)
    \/ \E t \in Threads : Alone(t) /\ CafConvert(t)

SerialSpec == Init /\ [][SerialNext]_vars

\* -------------------------------------------------------- ParseMp3Header
\* The tables reversed from the AJM library, read as Table[index + 1].
SamplerateTable ==
    << << 22050, 24000, 16000 >>,      \* {0x5622, 0x5DC0, 0x3E80}
       << 44100, 48000, 32000 >>,      \* {0xAC44, 0xBB80, 0x7D00}
       << 11025, 12000, 8000 >> >>     \* {0x2B11, 0x2EE0, 0x1F40}

BitrateTable ==
    << << 0, 32, 40, 48, 56, 64, 80, 96, 112, 128, 160, 192, 224, 256, 320 >>,
       << 0, 8, 16, 24, 32, 40, 48, 56, 64, 80, 96, 112, 128, 144, 160 >> >>

UnkTable == << 72, 144 >>              \* {0x48, 0x90}

\* x ^ 2 for a two-bit x.
Xor2(x) == IF (x \div 2) % 2 = 1 THEN x - 2 ELSE x + 2

unk_idx(b) == (b[1] \div 8) % 2                 \* buf[1] >> 3 & 1
version_idx(b) == Xor2((b[1] \div 8) % 4)       \* (buf[1] >> 3 & 3) ^ 2
sr_idx(b) == (b[2] \div 4) % 4                  \* buf[2] >> 2 & 3
br_idx(b) == (b[2] \div 16) % 16                \* (buf[2] >> 4) & 0xf
padding_bit(b) == (b[2] \div 2) % 2             \* (buf[2] >> 1) & 0x1

\* What a read past the end of a table can return: whatever lies in memory
\* there, zero included.
Garbage == {0, 1, 32}

\* SamplerateTable[version_idx][sr_idx]: the tabulated constant, or a read
\* out of range.
SamplerateRead(v, s) ==
    IF v \in 0..2 /\ s \in 0..2 THEN {SamplerateTable[v + 1][s + 1]} ELSE Garbage

\* A row selector that picks the other row.
BitrateRow_Swapped(v) == IF v # 1 THEN 0 ELSE 1

\* version_idx != 1 as an index.
BitrateRow(v) == IF v # 1 THEN 1 ELSE 0

\* BitrateTable[version_idx != 1][br_idx]: the tabulated constant, or a read
\* out of range.
BitrateRead(r, i) ==
    IF i \in 0..14 THEN {BitrateTable[r + 1][i + 1]} ELSE Garbage

\* A threshold that counts 0xc0 itself as below.
NumChannels_Le(b3) == IF b3 <= 192 THEN 2 ELSE 1

\* (buf[3] < 0xc0) + 1
NumChannels(b3) == IF b3 < 192 THEN 2 ELSE 1

\* A frame size rounded to nearest instead of truncated.
FrameSize_Rounded(u, bitrate, sample_rate, pad) ==
    (u * bitrate + sample_rate \div 2) \div sample_rate + pad

\* (UnkTable[unk_idx] * frame->bitrate) / frame->sample_rate + padding_bit,
\* for sample_rate # 0.
FrameSize(u, bitrate, sample_rate, pad) == (u * bitrate) \div sample_rate + pad

\* UnkTable[unk_idx] * 8
SamplesPerChannel(u) == u * 8

\* ParseMp3Header with a divisor that is not zero: all six fields are stored
\* and the function returns 0.
ParseMp3Header ==
    /\ ppc = "ready"
    /\ \E sr \in SamplerateRead(version_idx(buf), sr_idx(buf)),
          br \in BitrateRead(BitrateRow(version_idx(buf)), br_idx(buf)) :
        /\ sr # 0
        /\ hdr' = [sample_rate |-> sr,
                   bitrate |-> br * 1000,
                   num_channels |-> NumChannels(buf[3]),
                   frame_size |-> FrameSize(UnkTable[unk_idx(buf) + 1], br * 1000,
                                            sr, padding_bit(buf)),
                   samples_per_channel |-> SamplesPerChannel(UnkTable[unk_idx(buf) + 1]),
                   encoder_delay |-> 0]
    /\ ppc' = "parsed"
    /\ UNCHANGED << buf, singleSessionVars, swr_context, swrLive, threadVars >>

\* ParseMp3Header when the sample rate it read is zero: the first three
\* fields are stored, then the division by zero either traps, which kills
\* the process, or yields a quotient of 0 where the divide instruction does
\* not trap, and the function goes on.
ParseMp3HeaderDivZero ==
    /\ ppc = "ready"
    /\ \E sr \in SamplerateRead(version_idx(buf), sr_idx(buf)),
          br \in BitrateRead(BitrateRow(version_idx(buf)), br_idx(buf)),
          trap \in BOOLEAN :
        /\ sr = 0
        /\ hdr' = IF trap
                  THEN [hdr EXCEPT !.sample_rate = 0,
                                   !.bitrate = br * 1000,
                                   !.num_channels = NumChannels(buf[3])]
                  ELSE [sample_rate |-> 0,
                        bitrate |-> br * 1000,
                        num_channels |-> NumChannels(buf[3]),
                        frame_size |-> padding_bit(buf),
                        samples_per_channel |->
                            SamplesPerChannel(UnkTable[unk_idx(buf) + 1]),
                        encoder_delay |-> 0]
        /\ ppc' = IF trap THEN "crashed" ELSE "parsed"
    /\ UNCHANGED << buf, singleSessionVars, swr_context, swrLive, threadVars >>

\* ParseMp3Header is a pure function of its four bytes: it is applied once
\* to each header, with the session and the threads left as constructed.
\* The headers are every buf[1] and buf[2] with buf[3] on both sides of 0xc0,
\* and every buf[3] and two values of buf[0] with each of the four values of
\* bits 3..4 of buf[1].
ParseInit ==
    /\ SessionInit
    /\ ThreadsIdle
    /\ \/ \E b1 \in Bytes, b2 \in Bytes, b3 \in {191, 192} :
              buf = Header(255, b1, b2, b3)
       \/ \E b0 \in {0, 255}, b1 \in {227, 235, 243, 251}, b3 \in Bytes :
              buf = Header(b0, b1, 144, b3)
    /\ hdr = NoHeader
    /\ ppc = "ready"

ParseNext ==
    \/ ParseMp3Header
    \/ ParseMp3HeaderDivZero

ParseSpec == ParseInit /\ [][ParseNext]_vars

\* ================================================================ claims
InDecode == pc \in {"loop", "parse", "drain", "deliver", "exit"}
Returned == pc = "idle" /\ resetRun = 0      \* a Decode call was the last operation
ResetStep == pc = "idle" /\ pc' = "idle"     \* the only operation from idle to idle

\* C1: when the block about to be delivered needs more bytes than out_size
\* has left, nothing is written and neither counter moves for it.
C1_Backpressure ==
    [][(pc = "deliver" /\ ~U32Le(FrameBytes(frame), out_size))
         => /\ written' = written
            /\ decoded_samples' = decoded_samples
            /\ num_frames' = num_frames]_vars

\* C2: every Decode call that reaches the loop comes to an end.
C2_DecodeTerminates == (pc = "loop") ~> (pc \in {"idle", "aborted"})

\* C3: on return, a call with a job-output record has raised the record's
\* counter by the number of frames this call produced.
C3_RecordGetsCallFrames ==
    [][(pc = "exit" /\ hasRec) => mframe' - mframe = num_frames - nf0]_vars

\* C4: a Decode call with in_size = 0 or out_size = 0 never enters the loop
\* body, returns the sizes it was given and leaves both counters as they were.
C4_ZeroSizeCall ==
    (resetRun = 0 /\ (in0 = 0 \/ out0 = 0))
      => /\ pc \notin {"parse", "drain", "deliver"}
         /\ in_size = in0 /\ out_size = out0
         /\ consumed = 0 /\ written = 0
         /\ num_frames = nf0 /\ decoded_samples = ds0

C4_Witness ==
    /\ Returned /\ in0 = 0 /\ out0 > 0
    /\ nf0 > 0 /\ parserBuf > 0 /\ in_size = 0 /\ out_size = out0

\* C5: inside a Decode call no step makes in_size or out_size larger, as
\* unsigned 32-bit values.
C5_CursorsShrink ==
    [][InDecode => (U32Le(in_size', in_size) /\ U32Le(out_size', out_size))]_vars

\* C6: with no Reset since the call was entered, num_frames and
\* decoded_samples are at least what they were when Decode was entered.
C6_CountersMonotone ==
    resetRun = 0 => (num_frames >= nf0 /\ decoded_samples >= ds0)

C6_Witness ==
    Returned /\ nf0 > 0 /\ num_frames > nf0 /\ decoded_samples > ds0

\* C7: a Reset that follows a Reset leaves both counters 0, releases the
\* codec context once, leaves exactly the new context live, and changes
\* nothing else.
C7_ResetIdempotent ==
    [][(ResetStep /\ resetRun >= 1)
         => /\ decoded_samples' = 0 /\ decoded_samples = 0
            /\ num_frames' = 0 /\ num_frames = 0
            /\ ~badFree /\ ~badFree'
            /\ ctxLive' = {c'} /\ ctxLive = {c}
            /\ UNCHANGED << pc, parser, parserLive, parserBuf, callVars,
                            tempVars, fault >>]_vars

C7_Witness ==
    pc = "idle" /\ resetRun = 2 /\ ~badFree /\ ctxLive = {c}
      /\ parserBuf > 0 /\ mframe > 0

\* C8: once the session is destroyed, no codec context and no parser
\* context of it is live.
C8_DestroyReleasesBoth ==
    pc = "destroyed" => (ctxLive = {} /\ parserLive = {})

\* C9: a live session has exactly one live codec context, the one c points
\* to, and exactly one live parser context, the one parser points to.
C9_OneContextEach ==
    pc \notin {"aborted", "destroyed"}
      => /\ ctxLive = {c} /\ Cardinality(ctxLive) = 1
         /\ parserLive = {parser} /\ Cardinality(parserLive) = 1

C9_Witness ==
    pc = "idle" /\ resetRun = 2 /\ consumed > 0 /\ ctxLive = {c}

\* C10: Reset zeroes the counters and leaves the parser handle, the set of
\* live parsers and the bytes the parser holds as they were.
C10_ResetKeepsParser ==
    [][ResetStep
         => /\ parser' = parser
            /\ parserLive' = parserLive
            /\ parserBuf' = parserBuf
            /\ decoded_samples' = 0 /\ num_frames' = 0]_vars

C10_Witness ==
    pc = "idle" /\ resetRun >= 1 /\ parserBuf > 0 /\ nf0 > 0 /\ num_frames = 0

\* C11: when two sessions convert on separate threads, no thread has the
\* SwrContext it set up freed under it by the other thread, and none
\* converts with a context that is NULL or that the other thread allocated.
C11_SessionsIndependent == ~foreign

\* C17: when ConvertAudioFrame calls are made one after another, at most one
\* SwrContext is live at any moment, the one swr_context points to.
C17_OneSwrContext ==
    /\ Cardinality(SwrLiveSet) <= 1
    /\ swrLive = Cardinality(SwrLiveSet)
    /\ SwrLiveSet \subseteq {swr_context}

C17_Witness ==
    /\ tconv[1] >= 1 /\ tconv[2] >= 1
    /\ \E t \in Threads : tpc[t] = "convert"
    /\ Cardinality(SwrLiveSet) = 1

\* C12: a fatal condition inside Decode ends the call in a deliberate abort
\* (ASSERT_MSG or UNREACHABLE_MSG): the call does not return, and the process
\* does not die of anything else.
C12_FatalIsDistinguishedAbort ==
    /\ fault # "none" => pc = "aborted"
    /\ fault \in {"none", "assert", "unreachable"}

\* C18: at every point of a Decode call the bytes still to be read plus the
\* bytes the splitter reported consumed are the in_size the caller supplied.
C18_CursorFollowsSplitter == in_size + consumed = in0

C18_Witness ==
    /\ pc = "loop" /\ in0 = 2 /\ consumed = 1 /\ in_size = 1
    /\ parserBuf = 1 /\ framesLive = 0 /\ num_frames = 0

\* C19: inside a Decode call the output cursor, the bytes copied and the two
\* counters move only together, in the step that delivers a block: out_size
\* drops by channels * samples * 2 (as u32), as many bytes are copied,
\* num_frames goes up by 1 and decoded_samples by the block's samples.
C19_OutputAccounting ==
    [][InDecode =>
        IF \/ out_size' # out_size \/ written' # written
           \/ num_frames' # num_frames \/ decoded_samples' # decoded_samples
        THEN /\ pc = "deliver" /\ pc' = "drain"
             /\ written' = written + frame.ch * frame.n * 2
             /\ out_size' = U32Sub(out_size, frame.ch * frame.n * 2)
             /\ num_frames' = num_frames + 1
             /\ decoded_samples' = decoded_samples + frame.n
        ELSE pc' # "drain" \/ pc # "deliver"]_vars

C19_Witness ==
    /\ Returned /\ out0 = 2 /\ out_size = 0 /\ written = 2
    /\ num_frames = nf0 + 1 /\ decoded_samples = ds0 + 1 /\ nf0 > 0

\* C20: when Decode has returned, no AVPacket and no AVFrame it allocated
\* is still live.
C20_TemporariesReleased ==
    Returned => (pktLive = 0 /\ framesLive = 0)

\* The header's indices are all inside their tables.
InRange(b) ==
    /\ version_idx(b) \in 0..2
    /\ sr_idx(b) \in 0..2
    /\ br_idx(b) \in 0..14

\* C13: for every value of the header bytes, ParseMp3Header computes indices
\* inside the tables (version_idx and sr_idx in 0..2, br_idx in 0..14),
\* returns, and yields sample_rate # 0 and frame_size >= 0: no table is read
\* out of range and the division never divides by zero.
C13_HeaderAlwaysValid ==
    ppc # "ready" =>
        /\ InRange(buf)
        /\ ppc = "parsed"
        /\ hdr.sample_rate # 0
        /\ hdr.frame_size >= 0

\* C14: for every header whose indices are in range, sample_rate is
\* SamplerateTable[version_idx][sr_idx] and bitrate is
\* BitrateTable[row][br_idx] * 1000 with row 1 when version_idx # 1 and row 0
\* otherwise; version_idx 0 with sr_idx 0 gives 0x5622 and row 1 with br_idx
\* 5 gives 40000.
C14_TableLookupsExact ==
    (ppc = "parsed" /\ InRange(buf)) =>
        LET v == IF (buf[1] \div 16) % 2 = 1 THEN ((buf[1] \div 8) % 4) - 2
                                              ELSE ((buf[1] \div 8) % 4) + 2
            s == (buf[2] \div 4) % 4
            i == (buf[2] \div 16) % 16
            row == IF v = 1 THEN 0 ELSE 1
        IN  /\ hdr.sample_rate = SamplerateTable[v + 1][s + 1]
            /\ hdr.bitrate = BitrateTable[row + 1][i + 1] * 1000
            /\ (v = 0 /\ s = 0) => hdr.sample_rate = 22050
            /\ (row = 1 /\ i = 5) => hdr.bitrate = 40000

\* A header with version_idx 0, sr_idx 0 and br_idx 5 has been parsed.
C14_Witness ==
    /\ ppc = "parsed"
    /\ version_idx(buf) = 0
    /\ sr_idx(buf) = 0
    /\ br_idx(buf) = 5
    /\ hdr.sample_rate = 22050
    /\ hdr.bitrate = 40000

\* C15: for every in-range header, frame_size is the truncated quotient of
\* UnkTable[unk_idx] * bitrate by sample_rate, plus padding_bit, with unk_idx
\* bit 3 of buf[1] and padding_bit bit 1 of buf[2]; the product fits in 32
\* bits; samples_per_channel is UnkTable[unk_idx] * 8 and encoder_delay is
\* 0; and 0x48, 128000, 44100 and padding 0 give exactly 208.
C15_FrameSizeFormula ==
    /\ (ppc = "parsed" /\ InRange(buf)) =>
        LET u == IF (buf[1] \div 8) % 2 = 0 THEN 72 ELSE 144
            pad == (buf[2] \div 2) % 2
            q == hdr.frame_size - pad
        IN  /\ u * hdr.bitrate <= 2147483647
            /\ q * hdr.sample_rate <= u * hdr.bitrate
            /\ u * hdr.bitrate < (q + 1) * hdr.sample_rate
            /\ hdr.samples_per_channel = u * 8
            /\ hdr.encoder_delay = 0
    /\ ppc = "parsed" => FrameSize(72, 128000, 44100, 0) = 208

\* A header with a quotient that is not whole and the padding bit set has
\* been parsed: 0x90 * 128000 / 44100 is 417.96.
C15_Witness ==
    /\ ppc = "parsed"
    /\ unk_idx(buf) = 1
    /\ padding_bit(buf) = 1
    /\ hdr.bitrate = 128000
    /\ hdr.sample_rate = 44100
    /\ hdr.frame_size = 418

\* C16: for every buf[3], num_channels is 2 when buf[3] < 0xc0 and 1 when
\* buf[3] >= 0xc0, whatever the other header bytes are.
C16_ChannelThreshold ==
    ppc # "ready" => hdr.num_channels = (IF buf[3] >= 192 THEN 1 ELSE 2)

\* A header with buf[3] = 0xc0 has been parsed as one channel.
C16_Witness ==
    /\ ppc = "parsed"
    /\ buf[3] = 192
    /\ hdr.num_channels = 1

====
